---- MODULE Spec2Model ----
(***************************************************************************)
(* MMM-SunGrow node helper (src/node_helper.js): the session state         *)
(* (config, token, loginInProgress) shared by the data requests the view   *)
(* sends, and the life of each request through ensureLogin,                *)
(* loginToISolarCloud and the fetch functions.                             *)
(*                                                                         *)
(* Node.js runs one task at a time.  A step of the model is the code that  *)
(* runs between two awaits.  A continuation of an await on an already      *)
(* settled promise is a microtask: it runs before any further socket       *)
(* notification, network completion or timer (see Busy).  A network call   *)
(* is awaited twice, `await fetch(...)` and then `await res.json()`; the   *)
(* code between the two touches no state, so the arrival of the headers    *)
(* and of the body are one step, taken when the response is complete.      *)
(***************************************************************************)
EXTENDS Integers, Sequences, FiniteSets, TLC

\* Request slots that may be in progress at the same time; a slot whose
\* request has finished is taken again by a later request.
NumReq == 2
\* Distinct token strings the vendor may hand out.
NumTokens == 2
\* Distinct payloads the module may be sent.
NumPayloads == 2

Requests == 1..NumReq

\* this.token = null (start, and the 401 branches of the fetch functions)
NullToken == 0
\* a falsy value other than null stored by line 147: result_data.token
\* absent (undefined) or the empty string
EmptyToken == -1
Tokens == 1..NumTokens
TokenValues == {NullToken, EmptyToken} \cup Tokens

\* JavaScript truthiness of this.token, as tested by `if (this.token)` and
\* `if (!this.token)`
Truthy(t) == t \in Tokens

\* The four data notifications of socketNotificationReceived
Kinds == {"details", "currentPower", "overview", "dayEnergy"}

\* this.config: null after start, else the payload of SUN_GROW_CONFIG; a
\* field is TRUE when it is present and truthy
NullConfig ==
  [set |-> FALSE, userName |-> FALSE, userPassword |-> FALSE,
   portalUrl |-> FALSE, plantSN |-> FALSE]
FullConfig ==
  [set |-> TRUE, userName |-> TRUE, userPassword |-> TRUE,
   portalUrl |-> TRUE, plantSN |-> TRUE]
\* The configuration objects the view may send: complete, or lacking one of
\* the fields the helper tests
ConfigPayloads ==
  {FullConfig,
   [FullConfig EXCEPT !.userName = FALSE],
   [FullConfig EXCEPT !.userPassword = FALSE],
   [FullConfig EXCEPT !.portalUrl = FALSE],
   [FullConfig EXCEPT !.plantSN = FALSE]}

\* Outcomes of the login call, lines 129-147: fetch rejects; res.ok is false;
\* the body is no JSON; result_code is not the string "1"; result_data is
\* absent; result_data.token is absent or empty; it is a token string.
\* codeNumber1 is the answer whose result_code is the number 1: line 143
\* compares with !==, so it is a result_code other than the string "1".
LoginOutcomes ==
  {"transportError", "non2xx", "badJson", "codeNot1", "codeNumber1",
   "noResultData", "emptyToken", "token"}
\* Outcomes of a data call: fetch rejects; status 401; another status with
\* res.ok false; the body is no JSON; result_code is not the string "1";
\* result_data is absent; the device_point node is absent below a present
\* result_data; a complete answer
DataOutcomes ==
  {"transportError", "401", "non2xx", "badJson", "codeNot1", "noResultData",
   "noDevicePoint", "ok"}

\* Numbers of the vendor answers are decimals: a number is the fraction
\* num/den with den > 0
Rat(n, d) == [num |-> n, den |-> d]
Zero == Rat(0, 1)
RatEq(a, b) == a.num * b.den = b.num * a.den
RatLeq(a, b) == a.num * b.den <= b.num * a.den
Positive(a) == a.num > 0
Negative(a) == a.num < 0
Minus(a, b) == Rat(a.num * b.den - b.num * a.den, a.den * b.den)
Negate(a) == Rat(0 - a.num, a.den)
Times(a, k) == Rat(a.num * k, a.den)
DividedBy(a, k) == Rat(a.num, a.den * k)
Product(a, b) == Rat(a.num * b.num, a.den * b.den)

\* A field of a data node: not there, a string parseFloat cannot read, or a
\* string that reads as a number
Absent == [is |-> "absent", val |-> Zero]
Unparseable == [is |-> "text", val |-> Zero]
Number(n, d) == [is |-> "number", val |-> Rat(n, d)]

\* The whole numbers of the answers range over -MaxRaw..MaxRaw
MaxRaw == 1

\* A power point of device_point: absent, or a number of watts
PowerPoints == {Absent} \cup {Number(n, 1) : n \in (0 - MaxRaw)..MaxRaw}

\* The state-of-charge point, in halves from below 0 to above 1
SoCPoints ==
  {Absent, Unparseable} \cup {Number(n, 2) : n \in (0 - MaxRaw)..(2 + MaxRaw)}

\* device_point of a current-power answer with these five powers, the load
\* and the state of charge absent
PowerFlowExample(charging, discharging, pv, feedIn, purchased) ==
  [fn |-> "currentPower",
   p13126 |-> Number(charging, 1), p13150 |-> Number(discharging, 1),
   p13141 |-> Absent, p13119 |-> Absent, p13011 |-> Number(pv, 1),
   p13121 |-> Number(feedIn, 1), p13149 |-> Number(purchased, 1)]

\* device_point of the current-power answers (point ids of lines 307-316)
PowerFlowAnswers ==
  [fn : {"currentPower"}, p13126 : PowerPoints, p13150 : PowerPoints,
   p13141 : SoCPoints, p13119 : PowerPoints, p13011 : PowerPoints,
   p13121 : PowerPoints, p13149 : PowerPoints]
  \cup {PowerFlowExample(150, 0, 500, 200, 0),
        PowerFlowExample(0, 80, 0, 0, 300),
        PowerFlowExample(120, 80, 500, 0, 0)}

\* An energy point of device_point: absent, unreadable, or a number of
\* watt-hours
EnergyPoints == {Absent, Unparseable} \cup {Number(n, 1) : n \in 0..MaxRaw}

\* device_point of the day-energy answers (point ids of lines 466-470)
DayEnergyAnswers ==
  [fn : {"dayEnergy"}, p13112 : EnergyPoints, p13199 : EnergyPoints,
   p13122 : EnergyPoints, p13147 : EnergyPoints, p13116 : EnergyPoints]

\* A string field: not there, or the string s
NoString == [is |-> "absent", s |-> ""]
String(s) == [is |-> "string", s |-> s]

\* result_data of the station-detail answers; both fields are absent when
\* the answer has no result_data (`json.result_data || {}`, line 213)
DetailsAnswers ==
  [fn : {"details"},
   ps_location : {NoString, String(""), String("Musterweg 1")},
   design_capacity :
     {Absent, Number(14050, 1)} \cup {Number(n, 1) : n \in 0..MaxRaw}]

\* device_point of the battery answers the older helper asks for (point ids
\* of part_000, lines 284-288): state of charge, voltage, current,
\* operation mode and device status
StorageAnswers ==
  [fn : {"storage"}, p58604 : SoCPoints, p58601 : PowerPoints,
   p58602 : PowerPoints,
   p58608 : {NoString, String("0.0"), String("1.0"), String("2.0")},
   dev_status : {NoString, String("0"), String("1"), String("2"), String("3")}]

\* One battery answer with this device status
StorageExample(status) ==
  [fn |-> "storage", p58604 |-> Number(1, 2), p58601 |-> Number(1, 1),
   p58602 |-> Number(1, 1), p58608 |-> String("1.0"), dev_status |-> status]

\* Answer d with the device status the portal puts beside the points
WithStatus(d, status) ==
  [f \in DOMAIN d \cup {"dev_status"} |->
     IF f = "dev_status" THEN status ELSE d[f]]

\* Current-power answers that carry a device status
StatusAnswers ==
  {WithStatus(PowerFlowExample(150, 0, 500, 200, 0), String(st)) :
     st \in {"0", "1", "2", "3"}}

\* What the normalizers are given
Answers ==
  PowerFlowAnswers \cup StatusAnswers \cup DayEnergyAnswers \cup DetailsAnswers

\* No answer is being normalized, nothing has been built
NoAnswer == [fn |-> "none"]
NoPayload == [type |-> "none"]

VARIABLES
  config,           \* this.config
  token,            \* this.token
  loginInProgress,  \* this.loginInProgress
  pc,               \* per request: where its handler is suspended
  kind,             \* per request: the data notification it handles
  branch,           \* per request: the branch its call of ensureLogin took,
                    \* "none" outside that call and its return
  timer,            \* per request: which timer its wait loop sleeps on,
                    \* the first it set (0) or the one after (1), and
                    \* so on alternately; 0 outside the loop
  sent,             \* per request: the notifications sent for it, in order
  nData,            \* per request: vendor data calls it issued
  sentTok,          \* per request: the token its data call carried
  dataResp,         \* per request: the response its data call received
  ret,              \* per request: how the call of its fetch function ended
  ownerTok,         \* this.token as the latest login attempt left it, that
                    \* is, as the request that ran it saw it on return
  loginResp,        \* per request: the answer loginToISolarCloud has just
                    \* handled, NoResp once ensureLogin has resumed
  lastLogin,        \* how the latest call of loginToISolarCloud ended:
                    \* "none" before the first, "failed" when it caught an
                    \* error, "ok" when it assigned the token
  dp,               \* the data node of a vendor answer handed to a
                    \* normalizer: device_point, or result_data of the
                    \* station detail
  transformed,      \* the payload built from dp, NoPayload before
  previous,         \* the payload built from dp the time before, NoPayload
                    \* when there was none
  devStorageStatus, \* the global variable of that name which the older
                    \* helper creates by assigning to it (part_000, lines
                    \* 290-302), "undefined" before
  helper,           \* the file the helper is loaded from
  logged,           \* the secrets written to the log so far
  view              \* the module that sends the notifications: its options,
                    \* whether the request of its start is still on its way,
                    \* its one-shot timers that have not fired, the four
                    \* payloads it retains, and the notification its
                    \* handler was last called with

\* The fields of one request
request ==
  <<pc, kind, branch, timer, sent, nData, sentTok, dataResp, ret, loginResp>>

\* The state of the helper and of the requests it is handling
session ==
  <<config, token, loginInProgress, request, ownerTok, lastLogin, helper,
    logged, view>>

\* The normalizers' input and output, and the global they share
norm == <<dp, transformed, previous, devStorageStatus>>

vars == <<session, norm>>

\* No answer to a login call is being handled
NoResp == [outcome |-> "none", token |-> NullToken]

\* Positions of a request.  idle: slot unused.  loginFetch: awaiting the
\* login call.  loginReturned: loginToISolarCloud has returned, the finally
\* block of ensureLogin is a pending microtask.  parked: awaiting the 500 ms
\* timer of the wait loop.  afterEnsure: ensureLogin has returned, the call
\* of the fetch function is a pending microtask.  dataFetch: awaiting the
\* data call.  done: its last continuation has run.
PCs ==
  {"idle", "loginFetch", "loginReturned", "parked", "afterEnsure",
   "dataFetch", "done"}

\* A microtask is pending: no macrotask (socket notification, network
\* completion, timer) runs before it
Busy == \E r \in Requests : pc[r] \in {"loginReturned", "afterEnsure", "done"}

ErrorNotification(msg) == [notification |-> "SUN_GROW_ERROR", message |-> msg]
SuccessNotification(k) ==
  [notification |->
     CASE k = "details" -> "MMM-SunGrow-NOTIFICATION_SUNGROW_DETAILS_DATA_RECEIVED"
       [] k = "currentPower" -> "MMM-SunGrow-NOTIFICATION_SUNGROW_CURRENTPOWER_DATA_RECEIVED"
       [] k = "overview" -> "MMM-SunGrow-NOTIFICATION_SUNGROW_OVERVIEW_DATA_RECEIVED"
       [] k = "dayEnergy" -> "MMM-SunGrow-NOTIFICATION_SUNGROW_DAY_ENERGY_DATA_RECEIVED",
   message |-> ""]

IsError(n) == n.notification = "SUN_GROW_ERROR"
IsSuccess(n) == n.notification # "SUN_GROW_ERROR"

\* The payloads the module is sent, told apart by a number
Payloads == 1..NumPayloads

\* What the module can be notified of: the four kinds of data, and an error
Received ==
  {SuccessNotification(k).notification : k \in Kinds} \cup {"SUN_GROW_ERROR"}

\* part_001: dataNotificationCurrentPower, dataNotificationDetails,
\* dataNotificationOverview and dataNotificationDayEnergy before the first
\* notification; 0 stands for undefined
NothingRetained == [k \in Kinds |-> 0]

\* The handler of the module has not run
NothingReceived == [notification |-> "none", payload |-> 0]

\* The two helpers of the repository: the current one, and the older one
\* whose overview and day-energy functions are placeholders
Helpers == {"node_helper.js", "part_000"}

\* The things of the log that are secret
Secrets == {"userPassword", "token"}

\* No module is modelled: data notifications come from anywhere, in any
\* order
NoView ==
  [module |-> "none", showOverview |-> FALSE, showDayEnergy |-> FALSE,
   inFlight |-> FALSE, timeouts |-> {}, data |-> NothingRetained,
   got |-> NothingReceived]

\* part_001, start (39-90), once it has returned: getCurrentPowerData has
\* been called and its notification is on its way, the one-shot timers of
\* the details and of the enabled overview and day energy are set
ViewStarted(showOverview, showDayEnergy) ==
  [module |-> "MMM-SunGrow", showOverview |-> showOverview,
   showDayEnergy |-> showDayEnergy, inFlight |-> TRUE,
   timeouts |-> {"details"}
                  \cup (IF showOverview THEN {"overview"} ELSE {})
                  \cup (IF showDayEnergy THEN {"dayEnergy"} ELSE {}),
   data |-> NothingRetained, got |-> NothingReceived]

\* part_001, start (39-90) and the four get...Data (92-126): whether the
\* module can now have data notification k delivered.  The request of start
\* is delivered first; current power, overview and day energy have an
\* interval timer, the details a one-shot timer only.
mayRequest(v, k) ==
  IF v.module = "none" THEN TRUE
  ELSE IF v.inFlight THEN k = "currentPower"
  ELSE CASE k = "currentPower" -> TRUE
         [] k = "overview" -> v.showOverview
         [] k = "dayEnergy" -> v.showDayEnergy
         [] k = "details" -> "details" \in v.timeouts

\* The module after its data notification k has been delivered
afterRequest(v, k) ==
  IF v.module = "none" THEN v
  ELSE [v EXCEPT !.inFlight = FALSE, !.timeouts = @ \ {k}]

\* start(), lines 19-24, and no request being handled
start ==
  /\ config = NullConfig
  /\ token = NullToken
  /\ loginInProgress = FALSE
  /\ pc = [r \in Requests |-> "idle"]
  /\ kind = [r \in Requests |-> "details"]
  /\ branch = [r \in Requests |-> "none"]
  /\ timer = [r \in Requests |-> 0]
  /\ sent = [r \in Requests |-> <<>>]
  /\ nData = [r \in Requests |-> 0]
  /\ sentTok = [r \in Requests |-> NullToken]
  /\ dataResp = [r \in Requests |-> "none"]
  /\ ret = [r \in Requests |-> "none"]
  /\ loginResp = [r \in Requests |-> NoResp]
  /\ lastLogin = "none"
  /\ ownerTok = NullToken
  /\ logged = {}
  /\ previous = NoPayload
  /\ devStorageStatus = "undefined"

Init ==
  /\ start
  /\ helper = "node_helper.js"
  /\ view = NoView
  /\ dp = NoAnswer
  /\ transformed = NoPayload

\* ensureLogin without the test of loginInProgress: every call that finds
\* no token logs in
ensureLoginBranch_NoWait(tok, lip) ==
  IF Truthy(tok) THEN "return" ELSE "login"

\* ensureLogin without the test of the token: a cached token is not used
ensureLoginBranch_IgnoreToken(tok, lip) ==
  IF lip THEN "wait" ELSE "login"

\* ensureLogin, lines 79-94: which of its three branches a call takes
ensureLoginBranch(tok, lip) ==
  IF Truthy(tok) THEN "return"
  ELSE IF lip THEN "wait"
  ELSE "login"

\* A wait loop that logs in itself when the login it waited for left no
\* token
afterPoll_Relogin(tok, lip) ==
  IF lip THEN "parked" ELSE IF Truthy(tok) THEN "afterEnsure" ELSE "loginFetch"

\* ensureLogin, lines 86-90: where a call in the wait loop is after its
\* timer has fired
afterPoll(tok, lip) == IF lip THEN "parked" ELSE "afterEnsure"

\* loginToISolarCloud, lines 109-117: the message of the Error thrown by the
\* configuration checks, "" when none is thrown
configError(cfg) ==
  IF ~cfg.set THEN "No config found. Did you send SUN_GROW_CONFIG?"
  ELSE IF ~cfg.userName \/ ~cfg.userPassword
    THEN "No user/password provided in config for iSolarCloud login."
  ELSE IF ~cfg.portalUrl THEN "No portalUrl specified in config."
  ELSE ""

\* The login taken as done on any answer that is JSON, whatever its status
loginError_IgnoreStatus(o) ==
  CASE o = "transportError" -> "request to login failed"
    [] o = "badJson" -> "invalid json response body"
    [] o \in {"codeNot1", "codeNumber1"} -> "Login error"
    [] o = "noResultData" -> "Cannot read properties of undefined (reading 'token')"
    [] o \in {"non2xx", "emptyToken", "token"} -> ""

\* result_code compared with != : the number 1 passes for the string "1"
loginError_LooseCode(o) ==
  CASE o = "transportError" -> "request to login failed"
    [] o = "non2xx" -> "Login HTTP error! status"
    [] o = "badJson" -> "invalid json response body"
    [] o = "codeNot1" -> "Login error"
    [] o = "noResultData" -> "Cannot read properties of undefined (reading 'token')"
    [] o \in {"codeNumber1", "emptyToken", "token"} -> ""

\* loginToISolarCloud, lines 129-145 and 152-155: the message of the error
\* caught, "" when the token is assigned
loginError(o) ==
  CASE o = "transportError" -> "request to login failed"
    [] o = "non2xx" -> "Login HTTP error! status"
    [] o = "badJson" -> "invalid json response body"
    [] o \in {"codeNot1", "codeNumber1"} -> "Login error"
    [] o = "noResultData" -> "Cannot read properties of undefined (reading 'token')"
    [] o \in {"emptyToken", "token"} -> ""

\* loginToISolarCloud, line 147: the value assigned to this.token
loginToken(o, t) == IF o = "token" THEN t ELSE EmptyToken

\* The flag never cleared once a login has been started
flagAfterLogin_Sticky(tok) == TRUE

\* The flag cleared after a successful login only (no finally block)
flagAfterLogin_OnlyOnSuccess(tok) == ~Truthy(tok)

\* ensureLogin, lines 97-99: this.loginInProgress after the finally block
flagAfterLogin(tok) == FALSE

\* Fetch functions that do not test the token
fetchGuardError_NoTokenTest(k, tok, cfg) ==
  IF k = "details" /\ ~cfg.plantSN THEN "No sn in config." ELSE ""

\* The tests at the head of fetchDetailsData (166-176), fetchCurrentPowerData
\* (239-243) and fetchDayEnergyData (403-407): the message of the error
\* notification sent before returning, "" when the data call goes ahead
fetchGuardError(k, tok, cfg) ==
  IF ~Truthy(tok) THEN "No token available."
  ELSE IF k = "details" /\ ~cfg.plantSN THEN "No sn in config."
  ELSE ""

\* The Error thrown for a non-2xx status other than 401 (204, 292, 450)
httpErrorMessage(k) ==
  CASE k = "details" -> "HTTP error! status"
    [] k = "currentPower" -> "Battery data HTTP error! status"
    [] k = "dayEnergy" -> "DayEnergy HTTP error! status"

\* The Error thrown for a result_code other than "1" (209, 297, 455)
resultErrorMessage(k) ==
  CASE k = "details" -> "getPowerStationDetail error"
    [] k = "currentPower" -> "Battery data error"
    [] k = "dayEnergy" -> "DayEnergy data error"

\* The token dropped on every failed status, not on 401 alone
tokenAfterData_AnyStatus(o, tok) ==
  IF o \in {"401", "non2xx"} THEN NullToken ELSE tok

\* Lines 198-205, 286-293, 444-451: this.token after a data response
tokenAfterData(o, tok) == IF o = "401" THEN NullToken ELSE tok

\* A vendor result code other than "1" reported without leaving the
\* function: the success notification follows the error
dataNotifications_NoThrow(k, o) ==
  IF o = "codeNot1"
  THEN <<ErrorNotification("result_code"), SuccessNotification(k)>>
  ELSE IF o \in {"401", "noDevicePoint"} THEN <<>>
  ELSE IF o = "ok" THEN <<SuccessNotification(k)>>
  ELSE <<ErrorNotification("error")>>

\* Lines 189-231, 277-377, 435-494: the notifications a fetch function sends
\* for the answer to its data call.  On 401 it returns without sending.
\* fetchDetailsData takes `json.result_data || {}`; the two real-time
\* functions read json.result_data.device_point_list, a TypeError when
\* result_data is absent, and return without sending when device_point is
\* absent.
dataNotifications(k, o) ==
  CASE o = "transportError" -> <<ErrorNotification("request failed")>>
    [] o = "401" -> <<>>
    [] o = "non2xx" -> <<ErrorNotification(httpErrorMessage(k))>>
    [] o = "badJson" -> <<ErrorNotification("invalid json response body")>>
    [] o = "codeNot1" -> <<ErrorNotification(resultErrorMessage(k))>>
    [] o = "noResultData" ->
         IF k = "details" THEN <<SuccessNotification(k)>>
         ELSE <<ErrorNotification("Cannot read properties of undefined (reading 'device_point_list')")>>
    [] o = "noDevicePoint" ->
         IF k = "details" THEN <<SuccessNotification(k)>> ELSE <<>>
    [] o = "ok" -> <<SuccessNotification(k)>>

\* The secrets in the log line of the configuration message: none in
\* node_helper.js (line 41), the whole configuration in part_000 (line 39)
configLog(h, c) ==
  IF h = "part_000" /\ c.set /\ c.userPassword THEN {"userPassword"} ELSE {}

\* The secrets in the log line of a login that assigned the token: none in
\* node_helper.js (line 150), the token in part_000 (line 146)
loginLog(h, tok) ==
  IF h = "part_000" /\ Truthy(tok) THEN {"token"} ELSE {}

\* Whether helper h defines the fetch function of data notification k:
\* node_helper.js has no fetchOverviewData
definesFetch(h, k) == ~(h = "node_helper.js" /\ k = "overview")

\* Whether the fetch function of k in helper h is a placeholder, which
\* sends fixed data and calls nothing (part_000, lines 353-380, 387-418)
placeholder(h, k) == h = "part_000" /\ k \in {"overview", "dayEnergy"}

\* A configuration message that also drops the cached token
ReceiveConfig_DropsToken(c) ==
  /\ ~Busy
  /\ config' = c
  /\ token' = NullToken
  /\ logged' = logged \cup configLog(helper, c)
  /\ UNCHANGED <<loginInProgress, request, ownerTok, lastLogin, norm, helper,
                 view>>

\* socketNotificationReceived("SUN_GROW_CONFIG", payload)
ReceiveConfig(c) ==
  /\ ~Busy
  /\ config' = c
  /\ logged' = logged \cup configLog(helper, c)
  /\ UNCHANGED <<token, loginInProgress, request, ownerTok, lastLogin, norm,
                 helper, view>>

\* socketNotificationReceived with data notification k, run to its first
\* suspension: the call of ensureLogin and, on its login branch, the part
\* of loginToISolarCloud before `await fetch`.  The request takes the first
\* free slot.
ReceiveRequest(r, k) ==
  /\ ~Busy
  /\ pc[r] = "idle"
  /\ \A q \in Requests : q < r => pc[q] # "idle"
  /\ mayRequest(view, k)
  /\ view' = afterRequest(view, k)
  /\ kind' = [kind EXCEPT ![r] = k]
  /\ UNCHANGED <<config, token, nData, sentTok, dataResp, ret, ownerTok, norm,
                 timer, helper, logged>>
  /\ branch' = [branch EXCEPT ![r] = ensureLoginBranch(token, loginInProgress)]
  /\ LET b == ensureLoginBranch(token, loginInProgress) IN
     CASE b = "return" ->
            /\ pc' = [pc EXCEPT ![r] = "afterEnsure"]
            /\ UNCHANGED <<loginInProgress, sent, loginResp, lastLogin>>
       [] b = "wait" ->
            /\ pc' = [pc EXCEPT ![r] = "parked"]
            /\ UNCHANGED <<loginInProgress, sent, loginResp, lastLogin>>
       [] b = "login" ->
            /\ loginInProgress' = TRUE
            /\ IF configError(config) # ""
               THEN /\ sent' = [sent EXCEPT ![r] = Append(@,
                                  ErrorNotification(configError(config)))]
                    /\ pc' = [pc EXCEPT ![r] = "loginReturned"]
                    /\ loginResp' = [loginResp EXCEPT ![r] =
                                       [outcome |-> "configError", token |-> NullToken]]
                    /\ lastLogin' = "failed"
               ELSE /\ pc' = [pc EXCEPT ![r] = "loginFetch"]
                    /\ UNCHANGED <<sent, loginResp, lastLogin>>

\* loginToISolarCloud resumed with the answer o to the login call; t is the
\* token of the answer when it carries one
LoginResponse(r, o, t) ==
  /\ ~Busy
  /\ pc[r] = "loginFetch"
  /\ pc' = [pc EXCEPT ![r] = "loginReturned"]
  /\ loginResp' = [loginResp EXCEPT ![r] = [outcome |-> o, token |-> t]]
  /\ lastLogin' = IF loginError(o) = "" THEN "ok" ELSE "failed"
  /\ IF loginError(o) = ""
     THEN /\ token' = loginToken(o, t)
          /\ logged' = logged \cup loginLog(helper, loginToken(o, t))
          /\ UNCHANGED sent
     ELSE /\ sent' = [sent EXCEPT
                        ![r] = Append(@, ErrorNotification(loginError(o)))]
          /\ UNCHANGED <<token, logged>>
  /\ UNCHANGED <<config, loginInProgress, kind, branch, nData, sentTok,
                 dataResp, ret, ownerTok, norm, timer, helper, view>>

\* ensureLogin resumed after `await this.loginToISolarCloud()`: the finally
\* block, and the return
EnsureLoginFinally(r) ==
  /\ pc[r] = "loginReturned"
  /\ loginInProgress' = flagAfterLogin(token)
  /\ pc' = [pc EXCEPT ![r] = "afterEnsure"]
  /\ ownerTok' = token
  /\ loginResp' = [loginResp EXCEPT ![r] = NoResp]
  /\ UNCHANGED <<config, token, kind, branch, sent, nData, sentTok, dataResp,
                 ret, lastLogin, norm, timer, helper, logged, view>>

\* ensureLogin resumed by the 500 ms timer of its wait loop: sleep again
\* while the flag is set, else return
PollTimer(r) ==
  /\ ~Busy
  /\ pc[r] = "parked"
  /\ pc' = [pc EXCEPT ![r] = afterPoll(token, loginInProgress)]
  /\ timer' = [timer EXCEPT ![r] = IF pc'[r] = "parked" THEN 1 - @ ELSE 0]
  /\ UNCHANGED <<config, token, loginInProgress, kind, branch, sent, nData,
                 sentTok, dataResp, ret, ownerTok, loginResp, lastLogin, norm,
                 helper, logged, view>>

\* socketNotificationReceived resumed after `await this.ensureLogin()`: the
\* call of the fetch function of the request, run to its first suspension.
\* node_helper.js defines no fetchOverviewData: the call at line 62 throws a
\* TypeError that nothing catches.  The placeholders of part_000 send their
\* fixed data at once.
StartFetch(r) ==
  /\ pc[r] = "afterEnsure"
  /\ branch' = [branch EXCEPT ![r] = "none"]
  /\ IF ~definesFetch(helper, kind[r])
     THEN /\ pc' = [pc EXCEPT ![r] = "done"]
          /\ ret' = [ret EXCEPT ![r] = "TypeError"]
          /\ UNCHANGED <<sent, nData, sentTok>>
     ELSE IF fetchGuardError(kind[r], token, config) # ""
     THEN /\ pc' = [pc EXCEPT ![r] = "done"]
          /\ ret' = [ret EXCEPT ![r] = "undefined"]
          /\ sent' = [sent EXCEPT ![r] = Append(@,
                        ErrorNotification(fetchGuardError(kind[r], token, config)))]
          /\ UNCHANGED <<nData, sentTok>>
     ELSE IF placeholder(helper, kind[r])
     THEN /\ pc' = [pc EXCEPT ![r] = "done"]
          /\ ret' = [ret EXCEPT ![r] = "undefined"]
          /\ sent' = [sent EXCEPT ![r] = Append(@, SuccessNotification(kind[r]))]
          /\ UNCHANGED <<nData, sentTok>>
     ELSE /\ pc' = [pc EXCEPT ![r] = "dataFetch"]
          /\ nData' = [nData EXCEPT ![r] = @ + 1]
          /\ sentTok' = [sentTok EXCEPT ![r] = token]
          /\ UNCHANGED <<sent, ret>>
  /\ UNCHANGED <<config, token, loginInProgress, kind, dataResp, ownerTok,
                 loginResp, lastLogin, norm, timer, helper, logged, view>>

\* The fetch function of the request resumed with the answer o to its data
\* call, run to its end
DataResponse(r, o) ==
  /\ ~Busy
  /\ pc[r] = "dataFetch"
  /\ dataResp' = [dataResp EXCEPT ![r] = o]
  /\ token' = tokenAfterData(o, token)
  /\ sent' = [sent EXCEPT ![r] = @ \o dataNotifications(kind[r], o)]
  /\ pc' = [pc EXCEPT ![r] = "done"]
  /\ ret' = [ret EXCEPT ![r] = "undefined"]
  /\ UNCHANGED <<config, loginInProgress, kind, branch, nData, sentTok,
                 ownerTok, loginResp, lastLogin, norm, timer, helper, logged,
                 view>>

\* The request is over: nothing of it runs any more, and its slot is free
\* for the next data notification
Finish(r) ==
  /\ pc[r] = "done"
  /\ pc' = [pc EXCEPT ![r] = "idle"]
  /\ kind' = [kind EXCEPT ![r] = "details"]
  /\ sent' = [sent EXCEPT ![r] = <<>>]
  /\ nData' = [nData EXCEPT ![r] = 0]
  /\ sentTok' = [sentTok EXCEPT ![r] = NullToken]
  /\ dataResp' = [dataResp EXCEPT ![r] = "none"]
  /\ ret' = [ret EXCEPT ![r] = "none"]
  /\ UNCHANGED <<config, token, loginInProgress, branch, ownerTok, loginResp,
                 lastLogin, norm, timer, helper, logged, view>>

\* `parseFloat(x) || 0` (lines 307-316, 466-470): the number read, 0 when
\* the field is absent or unreadable (NaN) or reads as 0
parseFloatOr0(x) == IF x.is = "number" THEN x.val ELSE Zero

\* fetchCurrentPowerData, lines 307-318: the points of device_point
batteryChargingPower(d) == parseFloatOr0(d.p13126)
batteryDischargingPower(d) == parseFloatOr0(d.p13150)
batterySoCFrac(d) == parseFloatOr0(d.p13141)
batterySoCPercent(d) == Times(batterySoCFrac(d), 100)
loadPowerW(d) == parseFloatOr0(d.p13119)
pvPowerW(d) == parseFloatOr0(d.p13011)
feedInPower(d) == parseFloatOr0(d.p13121)
purchasedPower(d) == parseFloatOr0(d.p13149)
netGridPower(d) == Minus(feedInPower(d), purchasedPower(d))

Edge(f, t) == [from |-> f, to |-> t]

\* The storage arrow with discharging tested first
storageConnection_DischargeFirst(d) ==
  IF Positive(batteryDischargingPower(d)) THEN <<Edge("STORAGE", "LOAD")>>
  ELSE IF Positive(batteryChargingPower(d)) THEN <<Edge("PV", "STORAGE")>>
  ELSE <<>>

\* Lines 327-336: the arrow of the storage
storageConnection(d) ==
  IF Positive(batteryChargingPower(d)) THEN <<Edge("PV", "STORAGE")>>
  ELSE IF Positive(batteryDischargingPower(d)) THEN <<Edge("STORAGE", "LOAD")>>
  ELSE <<>>

\* The storage magnitude with discharging tested first
batteryPowerW_DischargeFirst(d) ==
  IF Positive(batteryDischargingPower(d)) THEN batteryDischargingPower(d)
  ELSE IF Positive(batteryChargingPower(d)) THEN batteryChargingPower(d)
  ELSE Zero

\* Lines 324-336: currentPower of the storage
batteryPowerW(d) ==
  IF Positive(batteryChargingPower(d)) THEN batteryChargingPower(d)
  ELSE IF Positive(batteryDischargingPower(d)) THEN batteryDischargingPower(d)
  ELSE Zero

\* Lines 338-340: the arrow of the PV
pvConnection(d) ==
  IF Positive(pvPowerW(d)) THEN <<Edge("PV", "LOAD")>> ELSE <<>>

\* Lines 342-352: the arrow of the grid
gridConnection(d) ==
  IF Positive(netGridPower(d)) THEN <<Edge("LOAD", "GRID")>>
  ELSE IF Negative(netGridPower(d)) THEN <<Edge("GRID", "LOAD")>>
  ELSE <<>>

\* The grid magnitude without the change of sign of line 349
gridPowerW_Signed(d) == netGridPower(d)

\* Lines 320 and 342-352: currentPower of the grid
gridPowerW(d) ==
  IF Positive(netGridPower(d)) THEN netGridPower(d)
  ELSE IF Negative(netGridPower(d)) THEN Negate(netGridPower(d))
  ELSE Zero

\* Lines 323-352: the arrows in the order they are pushed
connections(d) == storageConnection(d) \o pvConnection(d) \o gridConnection(d)

\* Lines 356-365: the payload of the current-power notification
siteCurrentPowerFlow(d) ==
  [type |-> "siteCurrentPowerFlow",
   STORAGE |-> [currentPower |-> batteryPowerW(d), status |-> "Active",
                chargeLevel |-> batterySoCPercent(d)],
   PV |-> [currentPower |-> pvPowerW(d), status |-> "Active"],
   LOAD |-> [currentPower |-> loadPowerW(d), status |-> "Active"],
   GRID |-> [currentPower |-> gridPowerW(d), status |-> "Active"],
   connections |-> connections(d),
   unit |-> "W"]

\* fetchCurrentPowerData from line 306 on, for a device_point that is there
BuildPowerFlow ==
  /\ dp.fn = "currentPower"
  /\ transformed = NoPayload
  /\ transformed' = siteCurrentPowerFlow(dp)
  /\ UNCHANGED <<session, dp, previous, devStorageStatus>>

\* One meter of the day-energy payload, lines 476-480
Meter(name, x) == [type |-> name, values |-> <<[value |-> parseFloatOr0(x)]>>]

\* A payload that leaves out the meters whose point is absent
energyDetails_SkipAbsent(d) ==
  [type |-> "energyDetails",
   meters |-> SelectSeq(<<Meter("Production", d.p13112),
                          Meter("Consumption", d.p13199),
                          Meter("FeedIn", d.p13122),
                          Meter("Purchased", d.p13147),
                          Meter("SelfConsumption", d.p13116)>>,
                        LAMBDA m : ~RatEq(m.values[1].value, Zero))]

\* fetchDayEnergyData, lines 465-483: the payload of the day-energy
\* notification
energyDetails(d) ==
  [type |-> "energyDetails",
   meters |-> <<Meter("Production", d.p13112),
                Meter("Consumption", d.p13199),
                Meter("FeedIn", d.p13122),
                Meter("Purchased", d.p13147),
                Meter("SelfConsumption", d.p13116)>>]

\* fetchDayEnergyData from line 465 on, for a device_point that is there
BuildDayEnergy ==
  /\ dp.fn = "dayEnergy"
  /\ transformed = NoPayload
  /\ transformed' = energyDetails(dp)
  /\ UNCHANGED <<session, dp, previous, devStorageStatus>>

\* Line 217: `rd.ps_location || "No address"`
address(rd) ==
  IF rd.ps_location.is = "string" /\ rd.ps_location.s # ""
  THEN rd.ps_location.s ELSE "No address"

\* The capacity passed on as it came
peakPower_Undivided(rd) ==
  IF rd.design_capacity.is = "number" THEN rd.design_capacity.val ELSE Zero

\* Line 219: `(rd.design_capacity || 0) / 1000`
peakPower(rd) ==
  DividedBy(IF rd.design_capacity.is = "number"
            THEN rd.design_capacity.val ELSE Zero, 1000)

\* fetchDetailsData, lines 213-221: the payload of the details notification
details(rd) ==
  [type |-> "details",
   location |-> [address |-> address(rd)],
   peakPower |-> peakPower(rd)]

\* fetchDetailsData from line 212 on
BuildDetails ==
  /\ dp.fn = "details"
  /\ transformed = NoPayload
  /\ transformed' = details(dp)
  /\ UNCHANGED <<session, dp, previous, devStorageStatus>>

\* `storage_dp.dev_status || 0` (part_000, line 288): the text of the value
\* the switch tests, "0" standing for the number 0 of an absent or empty
\* status
devStorage_status(d) ==
  IF d.dev_status.is = "string" /\ d.dev_status.s # "" THEN d.dev_status.s
  ELSE "0"

\* A switch without its default branch: the global keeps what an earlier
\* answer left in it
devStorageStatusAfter_NoDefault(d, old) ==
  IF d.dev_status.is = "string" /\ d.dev_status.s \in {"0", "1", "2"}
  THEN CASE d.dev_status.s = "1" -> "Active"
         [] d.dev_status.s = "2" -> "Disabled"
         [] d.dev_status.s = "0" -> "Idle"
  ELSE old

\* part_000, lines 290-302: the global devStorageStatus after the switch.
\* The cases compare with === against strings, so the number 0 of an absent
\* status takes the default branch.
devStorageStatusAfter(d, old) ==
  IF d.dev_status.is = "string" /\ d.dev_status.s \in {"0", "1", "2"}
  THEN CASE d.dev_status.s = "1" -> "Active"
         [] d.dev_status.s = "2" -> "Disabled"
         [] d.dev_status.s = "0" -> "Idle"
  ELSE "Unknown(" \o devStorage_status(d) \o ")"

\* part_000, lines 287 and 306-316: `storage_dp.p58608 || "0.0"` and the
\* arrow of the operation mode
storageModeConnections(d) ==
  LET devStorageOperationModus ==
        IF d.p58608.is = "string" /\ d.p58608.s # "" THEN d.p58608.s
        ELSE "0.0"
  IN CASE devStorageOperationModus = "1.0" -> <<Edge("PV", "STORAGE")>>
       [] devStorageOperationModus = "2.0" -> <<Edge("STORAGE", "LOAD")>>
       [] OTHER -> <<>>

\* part_000, lines 284-286 and 319-334: the payload of a battery answer,
\* the global holding `status`
storagePowerFlow(d, status) ==
  [type |-> "siteCurrentPowerFlow",
   STORAGE |-> [currentPower |-> Product(parseFloatOr0(d.p58601),
                                         parseFloatOr0(d.p58602)),
                status |-> status,
                chargeLevel |-> Times(parseFloatOr0(d.p58604), 100)],
   PV |-> [currentPower |-> Zero, status |-> "Unknown"],
   LOAD |-> [currentPower |-> Zero, status |-> "Unknown"],
   GRID |-> [currentPower |-> Zero, status |-> "Unknown"],
   connections |-> storageModeConnections(d),
   unit |-> "W"]

\* The global after answer d has been normalized: the battery mapping of
\* part_000 alone assigns it
globalAfter(d, old) ==
  IF d.fn = "storage" THEN devStorageStatusAfter(d, old) ELSE old

\* The payload built from answer d when the global holds `old`
payloadOf(d, old) ==
  CASE d.fn = "storage" -> storagePowerFlow(d, globalAfter(d, old))
    [] d.fn = "currentPower" -> siteCurrentPowerFlow(d)
    [] d.fn = "dayEnergy" -> energyDetails(d)
    [] d.fn = "details" -> details(d)

\* The answers normalized twice: the battery answers of part_000, and of
\* node_helper.js the day-energy answers, the station details and the
\* current-power answers without load and state of charge
RepeatedAnswers ==
  StorageAnswers \cup DayEnergyAnswers \cup DetailsAnswers
  \cup {d \in PowerFlowAnswers : d.p13141 = Absent /\ d.p13119 = Absent}

\* The answers of the requests in between: a battery answer of each
\* status, and one answer of each other kind
OtherAnswers ==
  {StorageExample(st) :
     st \in {NoString, String("0"), String("1"), String("2"), String("3")}}
  \cup {PowerFlowExample(150, 0, 500, 200, 0)}
  \cup {d \in DayEnergyAnswers : \A f \in DOMAIN d : f = "fn" \/ d[f] = Absent}
  \cup {d \in DetailsAnswers : d.ps_location = NoString /\ d.design_capacity = Absent}

\* Answer dp arrives and is normalized; what was built from it before is
\* kept for comparison
Normalize ==
  /\ previous' = transformed
  /\ transformed' = payloadOf(dp, devStorageStatus)
  /\ devStorageStatus' = globalAfter(dp, devStorageStatus)
  /\ UNCHANGED <<session, dp>>

\* Another answer arrives and is normalized, its payload sent and dropped
NormalizeOther(d) ==
  /\ transformed # NoPayload
  /\ devStorageStatus' = globalAfter(d, devStorageStatus)
  /\ UNCHANGED <<session, dp, transformed, previous>>

RepeatInit ==
  /\ start
  /\ dp \in RepeatedAnswers
  /\ helper = IF dp.fn = "storage" THEN "part_000" ELSE "node_helper.js"
  /\ view = NoView
  /\ transformed = NoPayload

RepeatNext == Normalize \/ \E d \in OtherAnswers : NormalizeOther(d)

\* The same answer normalized again and again, with other answers in
\* between
RepeatSpec == RepeatInit /\ [][RepeatNext]_vars

\* The normalizers applied to every answer
NormInit ==
  /\ start
  /\ helper = "node_helper.js"
  /\ view = NoView
  /\ dp \in Answers
  /\ transformed = NoPayload

NormNext == BuildPowerFlow \/ BuildDayEnergy \/ BuildDetails

NormSpec == NormInit /\ [][NormNext]_vars

\* The token strings the portal can put in a login response of outcome o
IssuedTokens(o) == IF o = "token" THEN Tokens ELSE {1}

Next ==
  \/ \E c \in ConfigPayloads : ReceiveConfig(c)
  \/ \E r \in Requests, k \in Kinds : ReceiveRequest(r, k)
  \/ \E r \in Requests, o \in LoginOutcomes :
       \E t \in IssuedTokens(o) : LoginResponse(r, o, t)
  \/ \E r \in Requests : EnsureLoginFinally(r)
  \/ \E r \in Requests : PollTimer(r)
  \/ \E r \in Requests : StartFetch(r)
  \/ \E r \in Requests, o \in DataOutcomes : DataResponse(r, o)
  \/ \E r \in Requests : Finish(r)

Spec == Init /\ [][Next]_vars

\* Microtasks run as soon as the running task ends, and a timer that is
\* set fires
LiveSpec ==
  /\ Spec
  /\ WF_vars(\E r \in Requests : EnsureLoginFinally(r))
  /\ WF_vars(\E r \in Requests : StartFetch(r))
  /\ WF_vars(\E r \in Requests : Finish(r))
  /\ WF_vars(\E r \in Requests : PollTimer(r))

\* The older helper on its own
OldInit ==
  /\ start
  /\ helper = "part_000"
  /\ view = NoView
  /\ dp = NoAnswer
  /\ transformed = NoPayload

OldSpec == OldInit /\ [][Next]_vars

\* The module of part_001 and a helper, from the return of the module's
\* start
ViewInit ==
  /\ start
  /\ helper \in Helpers
  /\ view \in {ViewStarted(o, e) : o \in BOOLEAN, e \in BOOLEAN}
  /\ dp = NoAnswer
  /\ transformed = NoPayload

\* The module sends the four data notifications and never SUN_GROW_CONFIG
\* (part_001, 92-126, is all it sends), and the helper does not read the
\* payload of a data notification (lines 46-70).  With this.config null
\* loginToISolarCloud throws before its call (108-111) and the fetch
\* functions return at their token test: no answer of the portal arrives and
\* no request finds a login under way.
ViewNext ==
  \/ \E r \in Requests, k \in Kinds : ReceiveRequest(r, k)
  \/ \E r \in Requests : EnsureLoginFinally(r)
  \/ \E r \in Requests : StartFetch(r)
  \/ \E r \in Requests : Finish(r)

ViewSpec == ViewInit /\ [][ViewNext]_vars

\* A handler that drops what it retains when an error arrives
retainedAfter_ClearOnError(data, n, p) ==
  IF n = "SUN_GROW_ERROR" THEN NothingRetained
  ELSE [k \in Kinds |->
          IF n = SuccessNotification(k).notification THEN p ELSE data[k]]

\* part_001, socketNotificationReceived (334-370): the four retained
\* payloads after notification n with payload p.  Each of the four tests
\* assigns one of them; SUN_GROW_ERROR passes none of the tests.
retainedAfter(data, n, p) ==
  [k \in Kinds |->
     IF n = SuccessNotification(k).notification THEN p ELSE data[k]]

\* The module is notified of n with payload p
ViewReceive(n, p) ==
  /\ view.module # "none"
  /\ view' = [view EXCEPT !.data = retainedAfter(@, n, p),
                          !.got = [notification |-> n, payload |-> p]]
  /\ UNCHANGED <<config, token, loginInProgress, request, ownerTok, lastLogin,
                 helper, logged, norm>>

\* The module and what it is notified of, whatever the helper does
ReceiveNext == \E n \in Received, p \in Payloads : ViewReceive(n, p)

ReceiveSpec == ViewInit /\ [][ReceiveNext]_vars

\* LiveSpec with a portal that answers every login call and a wait loop
\* whose 500 ms timer gets its turn however often other work is pending
FairLoginSpec ==
  /\ LiveSpec
  /\ \A r \in Requests : SF_vars(PollTimer(r))
  /\ WF_vars(\E r \in Requests, o \in LoginOutcomes :
               \E t \in IssuedTokens(o) : LoginResponse(r, o, t))

\* The requests whose login network call is outstanding
LoginsInFlight == {r \in Requests : pc[r] = "loginFetch"}

Errors(r) == {i \in DOMAIN sent[r] : IsError(sent[r][i])}
Successes(r) == {i \in DOMAIN sent[r] : IsSuccess(sent[r][i])}
RealTime == {"currentPower", "dayEnergy"}

\* C1: in every reachable state at most one login network call is
\* outstanding.
C1_AtMostOneLogin == Cardinality(LoginsInFlight) <= 1

\* A login call is outstanding while another request waits in ensureLogin.
C1_Witness ==
  \E r, q \in Requests : pc[r] = "loginFetch" /\ pc[q] = "parked"

\* C2 as stated: the requests that shared one login observe the same
\* outcome.  A request that waited for a login leaves ensureLogin with the
\* token with which the request that ran the login left it.
C2_SameOutcome ==
  \A r \in Requests :
    (pc[r] = "afterEnsure" /\ branch[r] = "wait") => token = ownerTok

\* C3: a request whose ensureLogin found a login in flight stays in the wait
\* loop or returns from ensureLogin, it never issues a login call; the step
\* that ends its wait is taken with the flag clear and changes neither the
\* session nor the notifications.
C3_WaiterNeverLogsIn ==
  [][\A r \in Requests :
       /\ branch[r] = "wait" =>
            /\ pc'[r] \notin {"loginFetch", "loginReturned"}
            /\ branch'[r] \in {"wait", "none"}
       /\ (pc[r] = "parked" /\ pc'[r] # "parked") =>
            /\ pc'[r] = "afterEnsure"
            /\ ~loginInProgress
            /\ UNCHANGED <<config, token, loginInProgress, sent>>]_vars

\* A request that waited has returned from ensureLogin after the login left
\* no token.
C3_Witness ==
  \E r \in Requests :
    pc[r] = "afterEnsure" /\ branch[r] = "wait" /\ ~Truthy(token)

\* C4: a call of ensureLogin made while a token is cached returns at once:
\* no login call, no wait, token and loginInProgress unchanged.
C4_CachedTokenReturns ==
  [][\A r \in Requests :
       (pc[r] = "idle" /\ pc'[r] # "idle" /\ Truthy(token)) =>
         /\ pc'[r] = "afterEnsure"
         /\ branch'[r] = "return"
         /\ sent'[r] = <<>>
         /\ UNCHANGED <<token, loginInProgress>>]_vars

\* A request has returned from ensureLogin on the cached token.
C4_Witness ==
  \E r \in Requests :
    pc[r] = "afterEnsure" /\ branch[r] = "return" /\ Truthy(token)

\* C5: loginInProgress is set only while a login attempt is running, and once
\* an attempt has returned, whatever its outcome, the flag becomes false.
C5_FlagCleared ==
  /\ [](loginInProgress =>
          \E r \in Requests : pc[r] \in {"loginFetch", "loginReturned"})
  /\ (\E r \in Requests : pc[r] = "loginReturned") ~> ~loginInProgress

\* A request whose login failed has left ensureLogin, and the flag is clear.
C5_Witness ==
  \E r \in Requests :
    /\ pc[r] = "afterEnsure" /\ branch[r] = "login"
    /\ Errors(r) # {} /\ ~loginInProgress /\ ~Truthy(token)

\* C6 as stated: a finished request has exactly one notification, or none
\* when the data node (device_point) of a real-time response was absent.
C6_ExactlyOneNotification ==
  \A r \in Requests :
    pc[r] = "done" =>
      IF kind[r] \in RealTime /\ dataResp[r] = "noDevicePoint"
      THEN Len(sent[r]) = 0
      ELSE Len(sent[r]) = 1

\* C7: the notifications of one request are never of both kinds.
C7_NeverBothKinds ==
  \A r \in Requests : Errors(r) = {} \/ Successes(r) = {}

\* A finished request has two notifications (both errors: the failed login
\* and the missing token).
C7_Witness ==
  \E r \in Requests : pc[r] = "done" /\ Len(sent[r]) = 2

\* C8 as stated: a 401 clears the token, sends no error notification and
\* hands the caller a TokenExpired condition.
C8_TokenExpiredSurfaced ==
  \A r \in Requests :
    (pc[r] = "done" /\ dataResp[r] = "401") =>
      /\ ~Truthy(token)
      /\ Errors(r) = {}
      /\ ret[r] = "TokenExpired"

\* C9 as stated: a request that ends on a 401 has logged in again and made
\* its data call twice.
C9_ReloginAndRetryOnce ==
  \A r \in Requests :
    (pc[r] = "done" /\ dataResp[r] = "401") => nData[r] = 2

\* C10: the token goes from set to unset only in the step that handles a
\* 401; a data call that fails otherwise leaves the token as it is, ends the
\* request after that one call, and is reported by one error notification.
C10_OnlyA401ClearsToken ==
  [][/\ (Truthy(token) /\ ~Truthy(token')) =>
          \E r \in Requests :
            pc[r] = "dataFetch" /\ pc'[r] = "done" /\ dataResp'[r] = "401"
     /\ \A r \in Requests :
          (/\ pc[r] = "dataFetch" /\ pc'[r] # "dataFetch"
           /\ dataResp'[r] \in {"non2xx", "codeNot1", "transportError"}) =>
            /\ token' = token
            /\ pc'[r] = "done"
            /\ nData'[r] = 1
            /\ Len(sent'[r]) = 1 /\ IsError(sent'[r][1])]_vars

\* A data call has failed with something other than a 401 and the token is
\* still cached.
C10_Witness ==
  \E r \in Requests :
    /\ pc[r] = "done"
    /\ dataResp[r] \in {"non2xx", "codeNot1", "transportError"}
    /\ Truthy(token) /\ token = sentTok[r]

\* The request has, in this step, got the answer to its login attempt
LoginAnswered(r) == pc[r] # "loginReturned" /\ pc'[r] = "loginReturned"

\* Answers with which loginToISolarCloud reaches the assignment of line 147
TokenAssigned == {"emptyToken", "token"}

\* Answers with a 2xx status and the string "1" as result_code
Status2xxCode1 == {"noResultData", "emptyToken", "token"}

\* result_data.token of an answer, undefined when the answer has none
ResponseToken(resp) ==
  IF resp.outcome = "token" THEN resp.token ELSE EmptyToken

\* C11: a login attempt that fails (configuration check, transport error,
\* non-2xx status, body that is no JSON, result code other than the string
\* "1", missing result_data) leaves the token as it was and appends one
\* SUN_GROW_ERROR notification with the message of the failure.
C11_FailedLoginKeepsToken ==
  [][\A r \in Requests :
       (LoginAnswered(r) /\ loginResp'[r].outcome \notin TokenAssigned) =>
         /\ token' = token
         /\ Len(sent'[r]) = Len(sent[r]) + 1
         /\ SubSeq(sent'[r], 1, Len(sent[r])) = sent[r]
         /\ IsError(sent'[r][Len(sent'[r])])
         /\ sent'[r][Len(sent'[r])].message # ""]_vars

\* A login call answered with a non-2xx status has been reported.
C11_Witness ==
  \E r \in Requests :
    /\ pc[r] = "loginReturned" /\ loginResp[r].outcome = "non2xx"
    /\ Errors(r) # {} /\ ~Truthy(token)

\* C12 as stated: the login sets the token, to result_data.token of the
\* answer and without an error notification, exactly when the answer has a
\* 2xx status and the string "1" as result_code.
C12_SetsTokenIff2xxAndCode1 ==
  [][\A r \in Requests :
       (LoginAnswered(r) /\ loginResp'[r].outcome # "configError") =>
         ((loginResp'[r].outcome \in Status2xxCode1) <=>
            (token' = ResponseToken(loginResp'[r]) /\ sent'[r] = sent[r]))]_vars

\* C12, amended: the login sets the token exactly when the answer has a 2xx
\* status, the string "1" as result_code and a result_data object; the value
\* set is result_data.token of that answer; every other answer, the number 1
\* as result_code included, leaves the token as it was.
C12_SetsTokenIffResultData ==
  [][\A r \in Requests :
       LoginAnswered(r) =>
         IF loginResp'[r].outcome \in TokenAssigned
         THEN token' = ResponseToken(loginResp'[r]) /\ sent'[r] = sent[r]
         ELSE token' = token /\ sent'[r] # sent[r]]_vars

\* A login answer has set the token to the value it carried.
C12_Witness ==
  \E r \in Requests :
    /\ pc[r] = "loginReturned" /\ loginResp[r].outcome = "token"
    /\ token = loginResp[r].token /\ token # ownerTok

\* C13: while the latest login attempt is a failed one the token is unset,
\* the step that ends the attempt leaves the flag clear, and a request that
\* arrives when no attempt is running starts a login of its own.
C13_NextRequestLogsInAgain ==
  /\ [](lastLogin = "failed" => ~Truthy(token))
  /\ [][\A r \in Requests :
          /\ (pc[r] = "loginReturned" /\ pc'[r] # "loginReturned"
                /\ lastLogin = "failed") => ~loginInProgress'
          /\ (/\ pc[r] = "idle" /\ pc'[r] # "idle" /\ lastLogin = "failed"
              /\ \A q \in Requests : pc[q] \notin {"loginFetch", "loginReturned"}) =>
               /\ branch'[r] = "login"
               /\ loginInProgress'
               /\ pc'[r] \in {"loginFetch", "loginReturned"}]_vars

\* A request is in its own login call after a login that failed.
C13_Witness ==
  \E r \in Requests :
    pc[r] = "loginFetch" /\ branch[r] = "login" /\ lastLogin = "failed"

\* C14 as stated, for a request that arrives while the configuration is
\* absent or lacks userName, userPassword or portalUrl: it enters no login
\* call, on return from ensureLogin (the same task when the token is cached)
\* it enters no data call, and it ends reported by an error notification; a
\* details request never enters its data call while plantSN is missing.
C14_NoCallWithoutConfig ==
  [][\A r \in Requests :
       /\ (configError(config) # "" /\ pc[r] = "idle") =>
            pc'[r] # "loginFetch"
       /\ (configError(config) # "" /\ pc[r] = "afterEnsure"
             /\ branch[r] = "return" /\ kind[r] # "overview") =>
            pc'[r] = "done" /\ Errors(r)' # {}
       /\ (kind[r] = "details" /\ ~config.plantSN /\ pc[r] = "afterEnsure") =>
            pc'[r] = "done" /\ Errors(r)' # {}]_vars

\* C15 as stated: a real-time answer with a 2xx status and result code "1"
\* whose data node is missing at any level ends the request with no
\* notification and the token unchanged.
C15_MissingNodeIsSilent ==
  [][\A r \in Requests :
       (/\ pc[r] = "dataFetch" /\ pc'[r] = "done" /\ kind[r] \in RealTime
        /\ dataResp'[r] \in {"noResultData", "noDevicePoint"}) =>
         sent'[r] = <<>> /\ token' = token]_vars

\* The arrows of the payload built
Edges == {transformed.connections[i] : i \in DOMAIN transformed.connections}

\* The five powers are numbers and none is negative
NonNegativePowers(d) ==
  \A x \in {d.p13126, d.p13150, d.p13011, d.p13121, d.p13149} :
    x.is = "number" /\ x.val.den = 1 /\ x.val.num >= 0

C17_NodePowersNonNegative ==
  transformed.type = "siteCurrentPowerFlow" =>
    \A n \in {"STORAGE", "PV", "LOAD", "GRID"} :
      ~Negative(transformed[n].currentPower)

\* C18 as stated: in every payload built STORAGE.chargeLevel lies in [0,100],
\* and it is the raw state of charge times 100 when that lies in 0..1.
C18_ChargeLevelInRange ==
  transformed.type = "siteCurrentPowerFlow" =>
    /\ RatLeq(Zero, transformed.STORAGE.chargeLevel)
    /\ RatLeq(transformed.STORAGE.chargeLevel, Rat(100, 1))
    /\ (dp.p13141.is = "number" /\ RatLeq(Zero, dp.p13141.val)
          /\ RatLeq(dp.p13141.val, Rat(1, 1))) =>
         RatEq(transformed.STORAGE.chargeLevel,
               Rat(dp.p13141.val.num * 100, dp.p13141.val.den))

\* The names of the meters, in the order of the payload
MeterNames ==
  <<"Production", "Consumption", "FeedIn", "Purchased", "SelfConsumption">>

\* The points of the meters, in the same order
MeterPoints(d) == <<d.p13112, d.p13199, d.p13122, d.p13147, d.p13116>>

\* C19: every day-energy payload built has exactly the five meters
\* Production, Consumption, FeedIn, Purchased, SelfConsumption in that
\* order, each with one value: the number of its point, 0 when the point is
\* absent or unreadable.
C19_FiveMetersAlways ==
  transformed.type = "energyDetails" =>
    /\ Len(transformed.meters) = 5
    /\ \A i \in 1..5 :
         /\ transformed.meters[i].type = MeterNames[i]
         /\ Len(transformed.meters[i].values) = 1
         /\ LET x == MeterPoints(dp)[i]
                v == transformed.meters[i].values[1].value
            IN IF x.is = "number" THEN RatEq(v, x.val) ELSE RatEq(v, Zero)

\* A day-energy payload has been built from a device_point with an absent
\* point, an unreadable point and a point that is a positive number.
C19_Witness ==
  /\ transformed.type = "energyDetails"
  /\ dp.p13112 = Absent /\ dp.p13199 = Unparseable
  /\ dp.p13122.is = "number" /\ Positive(dp.p13122.val)

\* C20: the details payload has peakPower equal to the design capacity
\* divided by 1000 (14050 gives 14.05) and 0 when the capacity is missing,
\* and the address equal to the location, "No address" when that is missing.
C20_PeakPowerAndAddress ==
  transformed.type = "details" =>
    /\ IF dp.design_capacity.is = "number"
       THEN dp.design_capacity.val.num * transformed.peakPower.den
              = 1000 * dp.design_capacity.val.den * transformed.peakPower.num
       ELSE RatEq(transformed.peakPower, Zero)
    /\ dp.design_capacity = Number(14050, 1) =>
         RatEq(transformed.peakPower, Rat(1405, 100))
    /\ transformed.location.address =
         IF dp.ps_location.is = "string" /\ dp.ps_location.s # ""
         THEN dp.ps_location.s ELSE "No address"

\* The details payload of capacity 14050 and no location has been built.
C20_Witness ==
  /\ transformed.type = "details"
  /\ dp.design_capacity = Number(14050, 1) /\ dp.ps_location = NoString
  /\ transformed.location.address = "No address"

\* C24 as stated: an overview request whose fetch function is called while
\* a token is cached sends one OVERVIEW_DATA_RECEIVED notification and
\* leaves token and loginInProgress unchanged.
C24_OverviewAnswered ==
  [][\A r \in Requests :
       (pc[r] = "afterEnsure" /\ pc'[r] # "afterEnsure"
          /\ kind[r] = "overview" /\ Truthy(token)) =>
         /\ sent'[r] = <<SuccessNotification("overview")>>
         /\ UNCHANGED <<token, loginInProgress>>]_vars

\* The storage arrows of the payload built
StorageEdges == Edges \cap {Edge("PV", "STORAGE"), Edge("STORAGE", "LOAD")}

\* The grid arrows of the payload built
GridEdges == Edges \cap {Edge("LOAD", "GRID"), Edge("GRID", "LOAD")}

\* C25: every payload built has at most one storage arrow, and when the
\* charging and the discharging power are both > 0 it is PV->STORAGE, with
\* the charging power as storage magnitude.
C25_ChargingTakesPrecedence ==
  transformed.type = "siteCurrentPowerFlow" =>
    /\ Cardinality(StorageEdges) <= 1
    /\ (/\ dp.p13126.is = "number" /\ dp.p13126.val.num > 0
        /\ dp.p13150.is = "number" /\ dp.p13150.val.num > 0) =>
         /\ StorageEdges = {Edge("PV", "STORAGE")}
         /\ RatEq(transformed.STORAGE.currentPower, dp.p13126.val)

\* A payload has been built from a charging and a discharging power that
\* are both > 0 and differ.
C25_Witness ==
  /\ transformed.type = "siteCurrentPowerFlow"
  /\ dp.p13126.is = "number" /\ dp.p13126.val.num > 0
  /\ dp.p13150.is = "number" /\ dp.p13150.val.num > 0
  /\ ~RatEq(dp.p13126.val, dp.p13150.val)

C27_ParkedResumes ==
  \A r \in Requests : (pc[r] = "parked") ~> (pc[r] # "parked")

\* C28 as stated: loginInProgress is true exactly in the states with one
\* login call outstanding.
C28_FlagIffCallOutstanding ==
  loginInProgress <=> Cardinality(LoginsInFlight) = 1

\* C28, amended: in every state in which a handler can start to run (no
\* continuation pending) loginInProgress is true exactly when one login call
\* is outstanding; in the other states it is true exactly when one request
\* is between the start of its login attempt and the finally block.
C28_FlagIffAttemptRunning ==
  /\ ~Busy => (loginInProgress <=> Cardinality(LoginsInFlight) = 1)
  /\ loginInProgress <=>
       Cardinality({r \in Requests : pc[r] \in {"loginFetch", "loginReturned"}}) = 1

\* A login call is outstanding, the flag is set and nothing else is pending.
C28_Witness ==
  /\ loginInProgress /\ ~Busy
  /\ \E r \in Requests : pc[r] = "loginFetch" /\ lastLogin = "failed"

\* C29 as stated: the step of a fetch function and the configuration
\* message leave token and loginInProgress unchanged.
C29_OnlySessionWritesToken ==
  [][(\/ \E r \in Requests : pc[r] \in {"afterEnsure", "dataFetch"} /\ pc'[r] # pc[r]
      \/ config' # config) =>
       UNCHANGED <<token, loginInProgress>>]_vars

\* C30 as stated: a 401 answer to a data call clears the token only if the
\* token is still the one the call carried.
C30_Late401KeepsNewerToken ==
  [][\A r \in Requests :
       (/\ pc[r] = "dataFetch" /\ pc'[r] = "done" /\ dataResp'[r] = "401"
        /\ token # sentTok[r]) => token' = token]_vars

\* C21: an answer normalized again, other answers having been normalized
\* in between, gives the payload it gave before.
C21_SamePayloadAgain ==
  previous # NoPayload => transformed = previous

\* A battery answer of a status the switch has no case for has been
\* normalized twice, the global holding another text than its own in
\* between.
C21_Witness ==
  /\ dp.fn = "storage" /\ dp.dev_status = String("3")
  /\ previous # NoPayload
  /\ transformed.STORAGE.status = "Unknown(3)"
  /\ devStorageStatus = "Active"

\* C22 as stated: no log line holds a secret (the password of the
\* configuration, the token).
C22_NoSecretLogged == logged = {}

\* C23 as stated, for the module of part_001 and a helper: a login attempt
\* is made with the configuration set, and a request that is over has sent
\* a success notification.
C23_ViewRequestsServed ==
  \A r \in Requests :
    /\ pc[r] \in {"loginFetch", "loginReturned"} => config.set
    /\ pc[r] = "done" => Successes(r) # <<>>

\* The data notifications whose fetch function calls the vendor
DataKinds == {"details", "currentPower", "dayEnergy"}

\* C31: a fetch function that issues its data call does so with a token
\* that is not empty, is the cached token of that moment and was assigned
\* by a login that succeeded; a fetch function that starts with no token
\* cached issues no call and sends one "No token available." error.
C31_CallsCarryTheCachedToken ==
  [][/\ \A r \in Requests :
          (pc[r] = "afterEnsure" /\ pc'[r] # "afterEnsure"
             /\ kind[r] \in DataKinds) =>
            IF Truthy(token)
            THEN pc'[r] = "dataFetch" =>
                   /\ sentTok'[r] = token
                   /\ token \in Tokens
                   /\ lastLogin = "ok"
            ELSE /\ pc'[r] = "done"
                 /\ nData'[r] = nData[r]
                 /\ sent'[r] =
                      Append(sent[r], ErrorNotification("No token available."))
     /\ \A r \in Requests : nData'[r] # nData[r] /\ pc'[r] # "idle" =>
          pc[r] = "afterEnsure" /\ pc'[r] = "dataFetch"
     /\ (token' # token /\ Truthy(token')) =>
          \E r \in Requests :
            /\ pc[r] = "loginFetch"
            /\ loginResp'[r].outcome = "token"
            /\ token' = loginResp'[r].token]_vars

\* A request that waited for a login that failed has started its fetch
\* function with no token cached: no data call, one error notification.
C31_Witness ==
  \E r \in Requests :
    /\ pc[r] = "done" /\ kind[r] \in DataKinds
    /\ nData[r] = 0
    /\ sent[r] = <<ErrorNotification("No token available.")>>

\* C32: the configuration message changes this.config and nothing else (no
\* token, no flag, no call, no notification), and a request that finds a
\* token cached makes its data call with it whatever the configuration now
\* says about the credentials.
C32_ConfigMessageOnlyStoresConfig ==
  [][/\ config' # config =>
          UNCHANGED <<token, loginInProgress, request, ownerTok, lastLogin>>
     /\ \A r \in Requests :
          (/\ pc[r] = "afterEnsure" /\ pc'[r] # "afterEnsure"
           /\ branch[r] = "return" /\ kind[r] \in {"currentPower", "dayEnergy"}) =>
            /\ Truthy(token)
            /\ pc'[r] = "dataFetch"
            /\ sentTok'[r] = token]_vars

\* A request has found a token cached while the configuration has no
\* password: the token was obtained under an earlier configuration, and
\* the configuration message that followed left it in place.
C32_Witness ==
  \E r \in Requests :
    /\ pc[r] = "afterEnsure" /\ branch[r] = "return"
    /\ kind[r] = "currentPower"
    /\ Truthy(token)
    /\ config.set /\ ~config.userPassword

\* C33: when the handler of the module has run, an error notification has
\* left the four retained payloads as they were, and a data notification
\* has replaced the retained payload of its own kind and left the other
\* three as they were.
C33_ErrorKeepsLastGoodData ==
  [][view' # view =>
       LET n == view'.got.notification
           p == view'.got.payload
       IN IF n = "SUN_GROW_ERROR" THEN view'.data = view.data
          ELSE \E k \in Kinds :
                 /\ n = SuccessNotification(k).notification
                 /\ view'.data[k] = p
                 /\ \A j \in Kinds \ {k} : view'.data[j] = view.data[j]]_vars

\* The module retains a payload of each kind, and the last notification it
\* handled was an error.
C33_Witness ==
  /\ view.got.notification = "SUN_GROW_ERROR"
  /\ \A k \in Kinds : view.data[k] # 0

\* C34 as stated: the storage status of the payload built from an answer
\* that carries a device status is Active for "1", Disabled for "2", Idle
\* for "0" and Unknown(<code>) for any other code.
C34_StatusLabelFollowsCode ==
  (/\ transformed.type = "siteCurrentPowerFlow"
   /\ "dev_status" \in DOMAIN dp
   /\ dp.dev_status.is = "string") =>
    transformed.STORAGE.status =
      CASE dp.dev_status.s = "1" -> "Active"
        [] dp.dev_status.s = "2" -> "Disabled"
        [] dp.dev_status.s = "0" -> "Idle"
        [] OTHER -> "Unknown(" \o dp.dev_status.s \o ")"
====
